---- MODULE Spec2Model ----
(***************************************************************************)
(* Model of gong_mcp_server.py: the GongMCPServer tool adapter.            *)
(*                                                                         *)
(* Representation of Python values:                                        *)
(*   dict            a TLA+ function with a set of string keys             *)
(*   list            a sequence                                            *)
(*   Optional[x]     <<>> for None at the top level of arguments,          *)
(*                   the string None for a missing scalar (JSON null)      *)
(*   str built by an f-string   the sequence of its pieces                 *)
(*   datetime        an integer number of clock ticks since datetime.min   *)
(* A coroutine suspends only at the await of client.request, so one        *)
(* invocation is two steps: Call (up to the await) and Deliver (from the   *)
(* arrival of the response to the return of handle_call_tool).             *)
(***************************************************************************)
EXTENDS Integers, Sequences, FiniteSets, TLC

VARIABLES access_key, access_key_secret, base_url, clock, inv

vars == <<access_key, access_key_secret, base_url, clock, inv>>

----------------------------------------------------------------------------
(* Bounds of the model *)

NumSlots == 2          \* invocations that can be in flight together
TicksPerDay == 2       \* clock resolution
ClockSpan == 1         \* how far the clock may move from its first reading
MaxCalls == 11         \* largest number of call entries in a remote payload
MaxSentences == 51     \* largest number of sentences in a remote transcript

(* Program constants *)

DefaultSearchDays == 7
DefaultScorecardDays == 30
CallLimit == 10
SentenceLimit == 50
MinDateTime == 0       \* datetime.min, the origin of the tick count

Slots == 1 .. NumSlots
Clock0 == (DefaultScorecardDays + 1) * TicksPerDay
MinClock == Clock0 - ClockSpan
MaxClock == Clock0 + ClockSpan

----------------------------------------------------------------------------
(* Python values *)

None == "None"
EmptyDict == [k \in {} |-> None]

Get(d, k, default) == IF k \in DOMAIN d THEN d[k] ELSE default

Min(a, b) == IF a <= b THEN a ELSE b

Take(s, n) == SubSeq(s, 1, Min(n, Len(s)))

Ok(v) == [ok |-> TRUE, value |-> <<v>>, type |-> "", msg |-> <<>>]
Raise(t, m) == [ok |-> FALSE, value |-> <<>>, type |-> t, msg |-> m]

str(n) == ToString(n)

b64encode(s) == [b64 |-> s]

json_dumps(obj) == [json |-> obj, indent |-> 2]

TextContent(obj) == [type |-> "text", text |-> json_dumps(obj)]

timedelta(days) == days * TicksPerDay

isoformat(t) == [date |-> t \div TicksPerDay, time |-> t % TicksPerDay]

Stamp(t) == [iso |-> isoformat(t), suffix |-> "Z"]

(* Variant: only 4xx and 5xx count as errors. *)
is_success_below400(status) == status < 400

is_success(status) == 200 <= status /\ status <= 299

----------------------------------------------------------------------------
(* make_gong_request: the part before the await builds the request, the   *)
(* part after it turns the outcome into a value or a ValueError.          *)

BuildRequest(key, secret, base, method, endpoint, kwargs) ==
    [ method  |-> method,
      url     |-> <<base>> \o endpoint,
      headers |-> [ ContentType   |-> "application/json",
                    Authorization |-> <<"Basic ", b64encode(<<key, ":", secret>>)>> ],
      kwargs  |-> kwargs ]

make_gong_request(outcome) ==
    IF outcome.kind = "transport"
    THEN Raise("ValueError", <<"Request failed: ", outcome.text>>)
    ELSE IF ~is_success(outcome.status)
    THEN Raise("ValueError",
               <<"Gong API error ", str(outcome.status), ": ", outcome.text>>)
    ELSE IF outcome.body = <<>>
    THEN Raise("ValueError", <<"Request failed: ", "Expecting value">>)
    ELSE Ok(outcome.body[1])

----------------------------------------------------------------------------
(* The four handlers.  X_begin is the code up to the await and yields      *)
(* either an exception or the suspended frame and the request arguments;   *)
(* X_resume is the code after the await.                                   *)

Suspend(method, endpoint, kwargs, frame) ==
    [ok |-> TRUE, type |-> "", msg |-> <<>>,
     method |-> method, endpoint |-> endpoint, kwargs |-> kwargs, frame |-> frame]

Abort(t, m) ==
    [ok |-> FALSE, type |-> t, msg |-> m,
     method |-> "", endpoint |-> <<>>, kwargs |-> EmptyDict, frame |-> EmptyDict]

search_request_body(params, from_date, to_date) ==
    LET base == [fromDateTime |-> from_date, toDateTime |-> to_date]
        withOwner == IF "owner_email" \in DOMAIN params /\ params["owner_email"] # ""
                     THEN [ownerEmails |-> <<params["owner_email"]>>]
                     ELSE EmptyDict
        withMin == IF "min_duration" \in DOMAIN params /\ params["min_duration"] # 0
                   THEN [minDuration |-> params["min_duration"]]
                   ELSE EmptyDict
    IN [filter |-> base @@ withOwner @@ withMin]

(* Variant: the filter body is transmitted with the query. *)
search_kwargs_withBody(request_body, from_date, to_date) ==
    [params |-> [fromDateTime |-> from_date, toDateTime |-> to_date],
     json |-> request_body]

search_kwargs(request_body, from_date, to_date) ==
    [params |-> [fromDateTime |-> from_date, toDateTime |-> to_date]]

(* Variant: the day count is added instead of subtracted. *)
search_from_forward(now, days_back) == now + timedelta(days_back)

search_from(now, days_back) == now - timedelta(days_back)

search_calls_begin(params, now1, now2) ==
    LET days_back == Get(params, "days_back", DefaultSearchDays)
        t == search_from(now1, days_back)
    IN IF t < MinDateTime
       THEN Abort("OverflowError", <<"date value out of range">>)
       ELSE LET from_date == Stamp(t)
                to_date == Stamp(now2)
                request_body == search_request_body(params, from_date, to_date)
            IN Suspend("GET", <<"/calls">>,
                       search_kwargs(request_body, from_date, to_date),
                       [days_back |-> days_back, from_date |-> from_date,
                        to_date |-> to_date, request_body |-> request_body])

project_call(call) ==
    LET ps == Get(call, "participants", <<>>)
    IN [ id           |-> call["id"],
         title        |-> Get(call, "title", "Untitled"),
         date         |-> Get(call, "started", None),
         duration     |-> Get(call, "duration", None),
         owner        |-> Get(Get(call, "owner", EmptyDict), "emailAddress", None),
         participants |-> [k \in 1 .. Len(ps) |-> Get(ps[k], "emailAddress", None)],
         url          |-> Get(call, "url", None) ]

search_slice(all) == Take(all, CallLimit)

(* Variant: found counts the remote entries, not the projected ones. *)
search_found_total(calls, all) == Len(all)

search_found(calls, all) == Len(calls)

search_calls_resume(frame, r) ==
    IF ~r.ok THEN r
    ELSE LET result == r.value[1]
             all == Get(result, "calls", <<>>)
             shown == search_slice(all)
         IN IF \E k \in 1 .. Len(shown) : "id" \notin DOMAIN shown[k]
            THEN Raise("KeyError", <<"'id'">>)
            ELSE LET calls == [k \in 1 .. Len(shown) |-> project_call(shown[k])]
                 IN Ok([found |-> search_found(calls, all), calls |-> calls])

get_call_transcript_begin(call_id) ==
    Suspend("POST", <<"/calls/transcript">>,
            [json |-> [filter |-> [callIds |-> <<call_id>>]]],
            [call_id |-> call_id])

project_sentence(sentence) ==
    [ speaker |-> Get(sentence, "speakerName", "Unknown"),
      text    |-> Get(sentence, "text", ""),
      time    |-> Get(sentence, "start", 0) ]

transcript_slice(sentences) == Take(sentences, SentenceLimit)

(* Variant: showing is not capped. *)
transcript_showing_total(sentences) == Len(sentences)

transcript_showing(sentences) == Min(SentenceLimit, Len(sentences))

get_call_transcript_resume(frame, r) ==
    IF ~r.ok THEN r
    ELSE LET result == r.value[1]
             transcripts == Get(result, "callTranscripts", <<>>)
         IN IF transcripts = <<>>
            THEN Ok([error |-> <<"No transcript found for this call">>])
            ELSE LET sentences == Get(transcripts[1], "sentences", <<>>)
                     shown == transcript_slice(sentences)
                 IN Ok([ call_id         |-> frame.call_id,
                         conversation    |-> [k \in 1 .. Len(shown) |->
                                                 project_sentence(shown[k])],
                         total_sentences |-> Len(sentences),
                         showing         |-> transcript_showing(sentences) ])

get_call_stats_begin(call_id) ==
    Suspend("GET", <<"/calls/", call_id>>, EmptyDict, [call_id |-> call_id])

get_call_stats_resume(frame, r) ==
    IF ~r.ok THEN r
    ELSE LET result == r.value[1]
             call == Get(result, "call", EmptyDict)
             stats == Get(call, "stats", EmptyDict)
         IN Ok([ call_id           |-> frame.call_id,
                 title             |-> Get(call, "title", None),
                 duration_seconds  |-> Get(call, "duration", None),
                 talk_ratio        |-> Get(stats, "talkRatio", None),
                 longest_monologue |-> Get(stats, "longestMonologue", None),
                 questions_asked   |-> Get(stats, "questionsAsked", None),
                 engagement_score  |-> Get(stats, "engagementScore", None),
                 sentiment         |-> Get(call, "sentiment", None) ])

scorecards_from(now, days_back) == now - timedelta(days_back)

list_scorecards_begin(params, now1, now2) ==
    LET days_back == Get(params, "days_back", DefaultScorecardDays)
        t == scorecards_from(now1, days_back)
    IN IF t < MinDateTime
       THEN Abort("OverflowError", <<"date value out of range">>)
       ELSE LET from_date == Stamp(t)
            IN Suspend("POST", <<"/stats/scorecards">>,
                       [json |-> [filter |-> [fromDateTime |-> from_date,
                                              toDateTime   |-> Stamp(now2)]]],
                       [days_back |-> days_back, from_date |-> from_date])

list_scorecards_resume(frame, r) ==
    IF ~r.ok THEN r
    ELSE LET result == r.value[1]
         IN Ok([ period     |-> <<"Last ", str(frame.days_back), " days">>,
                 scorecards |-> Get(result, "scorecards", <<>>) ])

----------------------------------------------------------------------------
(* handle_call_tool: dispatch by name, validation, the uniform envelope.   *)

Falsy(arguments) == arguments = <<>> \/ DOMAIN arguments[1] = {}

OrEmpty(arguments) == IF Falsy(arguments) THEN EmptyDict ELSE arguments[1]

MissingCallId(arguments) == Falsy(arguments) \/ "call_id" \notin DOMAIN arguments[1]

ReadsClock(name) == name \in {"search_calls", "list_scorecards"}

(* Variant: the name is matched without regard to case. *)
Dispatch_caseInsensitive(name) ==
    IF name \in {"search_calls", "Search_Calls"} THEN "search_calls"
    ELSE IF name \in {"get_call_transcript", "get_call_stats", "list_scorecards"}
    THEN name ELSE "none"

Dispatch(name) ==
    IF name \in {"search_calls", "get_call_transcript", "get_call_stats",
                 "list_scorecards"}
    THEN name ELSE "none"

(* Variant: call_id is read with a default instead of being required. *)
handle_call_tool_begin_unvalidated(name, arguments, now1, now2) ==
    CASE Dispatch(name) = "search_calls" ->
           search_calls_begin(OrEmpty(arguments), now1, now2)
      [] Dispatch(name) = "get_call_transcript" ->
           get_call_transcript_begin(Get(OrEmpty(arguments), "call_id", None))
      [] Dispatch(name) = "get_call_stats" ->
           get_call_stats_begin(Get(OrEmpty(arguments), "call_id", None))
      [] Dispatch(name) = "list_scorecards" ->
           list_scorecards_begin(OrEmpty(arguments), now1, now2)
      [] OTHER -> Abort("ValueError", <<"Unknown tool: ", name>>)

handle_call_tool_begin(name, arguments, now1, now2) ==
    CASE Dispatch(name) = "search_calls" ->
           search_calls_begin(OrEmpty(arguments), now1, now2)
      [] Dispatch(name) = "get_call_transcript" ->
           IF MissingCallId(arguments)
           THEN Abort("ValueError", <<"call_id is required for get_call_transcript">>)
           ELSE get_call_transcript_begin(arguments[1]["call_id"])
      [] Dispatch(name) = "get_call_stats" ->
           IF MissingCallId(arguments)
           THEN Abort("ValueError", <<"call_id is required for get_call_stats">>)
           ELSE get_call_stats_begin(arguments[1]["call_id"])
      [] Dispatch(name) = "list_scorecards" ->
           list_scorecards_begin(OrEmpty(arguments), now1, now2)
      [] OTHER -> Abort("ValueError", <<"Unknown tool: ", name>>)

(* The handler whose body starts to run: none when validation or the       *)
(* dispatch itself raises.                                                 *)
HandlerEntered(name, arguments) ==
    IF Dispatch(name) \in {"get_call_transcript", "get_call_stats"}
       /\ MissingCallId(arguments)
    THEN "none" ELSE Dispatch(name)

handle_call_tool_resume(handler, frame, outcome) ==
    LET r == make_gong_request(outcome)
    IN CASE handler = "search_calls"        -> search_calls_resume(frame, r)
         [] handler = "get_call_transcript" -> get_call_transcript_resume(frame, r)
         [] handler = "get_call_stats"      -> get_call_stats_resume(frame, r)
         [] OTHER                           -> list_scorecards_resume(frame, r)

(* Variant: except ValueError. *)
Caught_onlyValueError(type) == type = "ValueError"

(* except Exception as e: every exception type raised here is caught. *)
Caught(type) == TRUE

ErrorEnvelope(msg) == <<TextContent([error |-> msg])>>

ResultEnvelope(result) == <<TextContent(result)>>

----------------------------------------------------------------------------
(* State of one invocation slot *)

IdleSlot ==
    [ pc |-> "idle", name |-> "", arguments |-> <<>>, reads |-> <<>>,
      handler |-> "none", frame |-> <<>>, request |-> <<>>, nreq |-> 0,
      outcome |-> <<>>, out |-> <<>>, escaped |-> FALSE, overlapped |-> FALSE ]

Init ==
    /\ access_key = "key"
    /\ access_key_secret = "secret"
    /\ base_url = "https://api.gong.io/v2"
    /\ clock = Clock0
    /\ inv = [i \in Slots |-> IdleSlot]

(* Variant: the url is built by extending self.base_url in place. *)
make_gong_request_fields_rebased ==
    /\ base_url' = "https://api.gong.io/v2/calls"
    /\ UNCHANGED <<access_key, access_key_secret>>

(* make_gong_request reads self.access_key, self.access_key_secret and     *)
(* self.base_url and assigns none of them.                                 *)
make_gong_request_fields ==
    UNCHANGED <<access_key, access_key_secret, base_url>>

(* Another invocation is suspended at its await.  The field overlapped of  *)
(* a slot is a history flag: the invocation shared the await with another. *)
InFlight(i) == \E j \in DOMAIN inv : j # i /\ inv[j].pc = "awaiting"

(* The caller invokes a tool; the coroutine runs up to its first await.    *)
Call(i, name, arguments, d) ==
    /\ inv[i].pc = "idle"
    /\ IF ReadsClock(Dispatch(name))
       THEN clock + d \in MinClock .. MaxClock
       ELSE d = 0
    /\ LET now1 == clock
           now2 == clock + d
           b == handle_call_tool_begin(name, arguments, now1, now2)
           started == [ IdleSlot EXCEPT
                          !.name = name, !.arguments = arguments,
                          !.reads = IF ReadsClock(Dispatch(name))
                                    THEN <<now1, now2>> ELSE <<>>,
                          !.handler = HandlerEntered(name, arguments) ]
       IN /\ clock' = now2
          /\ IF b.ok
             THEN /\ inv' = [j \in DOMAIN inv |->
                        IF j = i
                        THEN [ started EXCEPT
                                 !.pc = "awaiting",
                                 !.frame = <<b.frame>>,
                                 !.request = <<BuildRequest(access_key, access_key_secret,
                                                 base_url, b.method, b.endpoint, b.kwargs)>>,
                                 !.nreq = 1,
                                 !.overlapped = InFlight(i) ]
                        ELSE IF inv[j].pc = "awaiting"
                        THEN [inv[j] EXCEPT !.overlapped = TRUE]
                        ELSE inv[j]]
                  /\ make_gong_request_fields
             ELSE /\ inv' = [inv EXCEPT ![i] =
                        [ started EXCEPT
                            !.pc = "done",
                            !.out = IF Caught(b.type) THEN ErrorEnvelope(b.msg)
                                    ELSE <<>>,
                            !.escaped = ~Caught(b.type) ]]
                  /\ UNCHANGED <<access_key, access_key_secret, base_url>>

(* Variant: a failed request is issued once more. *)
Deliver_retry(i, outcome) ==
    /\ inv[i].pc = "awaiting"
    /\ LET r == handle_call_tool_resume(inv[i].handler, inv[i].frame[1], outcome)
           failed == outcome.kind = "transport" \/ ~is_success(outcome.status)
       IN inv' = [inv EXCEPT ![i] =
              IF failed /\ inv[i].nreq < 2
              THEN [ @ EXCEPT !.nreq = @ + 1 ]
              ELSE [ @ EXCEPT
                       !.pc = "done",
                       !.outcome = <<outcome>>,
                       !.out = IF r.ok THEN ResultEnvelope(r.value[1])
                               ELSE IF Caught(r.type) THEN ErrorEnvelope(r.msg)
                               ELSE <<>>,
                       !.escaped = ~r.ok /\ ~Caught(r.type) ]]
    /\ UNCHANGED <<access_key, access_key_secret, base_url, clock>>

(* The response (or the transport failure) arrives; the coroutine runs to  *)
(* the return of handle_call_tool.                                         *)
Deliver(i, outcome) ==
    /\ inv[i].pc = "awaiting"
    /\ LET r == handle_call_tool_resume(inv[i].handler, inv[i].frame[1], outcome)
       IN inv' = [inv EXCEPT ![i] =
              [ @ EXCEPT
                  !.pc = "done",
                  !.outcome = <<outcome>>,
                  !.out = IF r.ok THEN ResultEnvelope(r.value[1])
                          ELSE IF Caught(r.type) THEN ErrorEnvelope(r.msg)
                          ELSE <<>>,
                  !.escaped = ~r.ok /\ ~Caught(r.type) ]]
    /\ UNCHANGED <<access_key, access_key_secret, base_url, clock>>

(* The caller takes the returned content; the slot serves a later call.    *)
Return(i) ==
    /\ inv[i].pc = "done"
    /\ inv' = [inv EXCEPT ![i] = IdleSlot]
    /\ UNCHANGED <<access_key, access_key_secret, base_url, clock>>

(* The wall clock moves (forwards, or backwards when it is adjusted).      *)
Tick(d) ==
    /\ clock + d \in MinClock .. MaxClock
    /\ clock' = clock + d
    /\ UNCHANGED <<access_key, access_key_secret, base_url, inv>>

----------------------------------------------------------------------------
(* Inputs: what the caller sends and what the remote API answers.          *)

Opt(k, Vals) == {EmptyDict} \cup {[x \in {k} |-> v] : v \in Vals}

SearchParams(Days, Owners, Mins, Kws) ==
    { a @@ b @@ c @@ d : a \in Opt("days_back", Days), b \in Opt("owner_email", Owners),
                         c \in Opt("min_duration", Mins), d \in Opt("keyword", Kws) }

Some(S) == {<<x>> : x \in S}

Drift == {-1, 0, 1}

ToolInputs(Names, Args) == {[name |-> n, arguments |-> a] : n \in Names, a \in Args}

FullCall(k) ==
    [ id |-> str(k), title |-> "Weekly sync", started |-> "2024-01-01T10:00:00Z",
      duration |-> "1800", owner |-> [emailAddress |-> "owner@x.io"],
      participants |-> <<[emailAddress |-> "p@x.io"], [name |-> "guest"]>>,
      url |-> "https://app.gong.io/call" ]

BareCall(k) == [id |-> str(k)]

NoIdCall(k) == [title |-> "No id"]

CallList(n, shape) ==
    [ k \in 1 .. n |->
        IF shape = "mixed"
        THEN IF k % 2 = 0 THEN BareCall(k) ELSE FullCall(k)
        ELSE IF k = n THEN NoIdCall(k) ELSE FullCall(k) ]

FullSentence(k) == [speakerName |-> "Ann", text |-> "hello", start |-> k]

BareSentence(k) == [topic |-> "intro"]

SentenceList(n, shape) ==
    [ k \in 1 .. n |->
        IF shape = "mixed" /\ k % 2 = 0 THEN BareSentence(k) ELSE FullSentence(k) ]

Http(status, text, body) ==
    [kind |-> "http", status |-> status, text |-> text, body |-> body]

Failures ==
    {[kind |-> "transport", status |-> 0, text |-> "timed out", body |-> <<>>]}
    \cup {Http(s, "denied", <<>>) : s \in {301, 401, 404, 500}}
    \cup {Http(200, "<html>", <<>>)}

SearchPayloads(Sizes, Shapes) ==
    {EmptyDict} \cup {[calls |-> CallList(n, sh)] : n \in Sizes, sh \in Shapes}

TranscriptPayloads(Sizes, Shapes) ==
    {EmptyDict, [callTranscripts |-> <<>>], [callTranscripts |-> <<[callId |-> "X"]>>]}
    \cup {[callTranscripts |-> <<[callId |-> "X", sentences |-> SentenceList(n, sh)]>>] :
            n \in Sizes, sh \in Shapes}

StatsPayloads ==
    { EmptyDict,
      [call |-> [title |-> "Weekly sync"]],
      [call |-> [title |-> "Weekly sync", duration |-> "1800", sentiment |-> "positive",
                 stats |-> [talkRatio |-> "0.4", longestMonologue |-> "120",
                            questionsAsked |-> "7", engagementScore |-> "0.9"]]] }

ScorecardPayloads == {EmptyDict, [scorecards |-> <<[scorecardId |-> "s1"]>>]}

Success(Payloads) == {Http(200, "{...}", <<p>>) : p \in Payloads}

(* The three input spaces.  Sequential: one invocation at a time, every   *)
(* argument shape and every payload size up to the bounds, a clock that    *)
(* may step back between the two readings of a handler.  Concurrent:       *)
(* every operation on every slot, small payloads.  Paired: two             *)
(* search_calls invocations side by side, every combination of filters.   *)

TooManyDays == DefaultScorecardDays + 2 + ClockSpan

RichInputs ==
    ToolInputs({"search_calls"},
               {<<>>} \cup Some(SearchParams({-1, 0, 1, TooManyDays},
                                             {"a@x.io"}, {0, 60}, {"renewal"})))
    \cup ToolInputs({"list_scorecards"},
                    {<<>>} \cup Some(Opt("days_back", {-1, 0, 1, TooManyDays})))
    \cup ToolInputs({"get_call_transcript", "get_call_stats"},
                    {<<>>, <<EmptyDict>>, <<[keyword |-> "renewal"]>>, <<[call_id |-> "X"]>>})
    \cup ToolInputs({"delete_call", "Search_Calls", ""}, {<<>>, <<[call_id |-> "X"]>>})

RichOutcomes(handler) ==
    Failures \cup
    CASE handler = "search_calls" ->
           Success(SearchPayloads(0 .. MaxCalls, {"mixed", "noid"}))
      [] handler = "get_call_transcript" ->
           Success(TranscriptPayloads(0 .. MaxSentences, {"full", "mixed"}))
      [] handler = "get_call_stats" -> Success(StatsPayloads)
      [] OTHER -> Success(ScorecardPayloads)

SmallInputs ==
    ToolInputs({"search_calls"}, {<<[days_back |-> 1, owner_email |-> "a@x.io"]>>})
    \cup ToolInputs({"list_scorecards"}, {<<>>})
    \cup ToolInputs({"get_call_transcript"}, {<<>>, <<[call_id |-> "X"]>>})
    \cup ToolInputs({"get_call_stats"}, {<<[call_id |-> "Y"]>>})
    \cup ToolInputs({"delete_call"}, {<<>>})

SmallFailures == {f \in Failures : f.status = 404}

SmallOutcomes(handler) ==
    SmallFailures \cup
    CASE handler = "search_calls" -> Success({[calls |-> CallList(2, "mixed")]})
      [] handler = "get_call_transcript" ->
           Success({[callTranscripts |-> <<[sentences |-> SentenceList(1, "full")]>>]})
      [] handler = "get_call_stats" -> Success({[call |-> [title |-> "Weekly sync"]]})
      [] OTHER -> Success({[scorecards |-> <<[scorecardId |-> "s1"]>>]})

PairInputs ==
    ToolInputs({"search_calls"},
               {<<>>} \cup Some(SearchParams({1}, {"a@x.io"}, {60}, {"renewal"})))

PairOutcomes(handler) ==
    SmallFailures \cup Success({[calls |-> CallList(2, "mixed")]})

NextOver(S, Inputs, Drifts, Ticks, Outcomes(_)) ==
    \/ \E i \in S, inp \in Inputs, d \in Drifts :
          Call(i, inp.name, inp.arguments, d)
    \/ \E i \in S : \E outcome \in Outcomes(inv[i].handler) :
          Deliver(i, outcome)
    \/ \E i \in S : Return(i)
    \/ \E d \in Ticks : Tick(d)

Next == NextOver(Slots, SmallInputs, {0}, {1}, SmallOutcomes)

Spec == Init /\ [][Next]_vars

NextSeq == NextOver({1}, RichInputs, Drift, {1}, RichOutcomes)

SpecSeq == Init /\ [][NextSeq]_vars

NextPair == NextOver({1, 2}, PairInputs, {0}, {1}, PairOutcomes)

SpecPair == Init /\ [][NextPair]_vars

TypeOK ==
    /\ clock \in MinClock .. MaxClock
    /\ \A i \in Slots : inv[i].pc \in {"idle", "awaiting", "done"}

----------------------------------------------------------------------------
(* Vocabulary of the properties *)

ToolNames == {"search_calls", "get_call_transcript", "get_call_stats", "list_scorecards"}

Active(i) == inv[i].pc # "idle"

Done(i) == inv[i].pc = "done"

(* The JSON object carried by the single text block an invocation returned *)
Obj(i) == inv[i].out[1].text.json

OneTextBlock(i) ==
    /\ ~inv[i].escaped
    /\ Len(inv[i].out) = 1
    /\ inv[i].out[1].type = "text"

Contains(msg, piece) == \E k \in 1 .. Len(msg) : msg[k] = piece

IsErrorObject(obj) == DOMAIN obj = {"error"} /\ Len(obj.error) >= 1

ResultKeys(handler) ==
    CASE handler = "search_calls" -> {"found", "calls"}
      [] handler = "get_call_transcript" ->
           {"call_id", "conversation", "total_sentences", "showing"}
      [] handler = "get_call_stats" ->
           {"call_id", "title", "duration_seconds", "talk_ratio", "longest_monologue",
            "questions_asked", "engagement_score", "sentiment"}
      [] handler = "list_scorecards" -> {"period", "scorecards"}
      [] OTHER -> {}

Answered(i) == Done(i) /\ inv[i].outcome # <<>>

Failed(i) ==
    /\ Answered(i)
    /\ \/ inv[i].outcome[1].kind = "transport"
       \/ inv[i].outcome[1].status < 200
       \/ inv[i].outcome[1].status > 299

Non2xx(i) ==
    /\ Answered(i)
    /\ inv[i].outcome[1].kind = "http"
    /\ (inv[i].outcome[1].status < 200 \/ inv[i].outcome[1].status > 299)

(* The remote answered 2xx with a JSON document *)
Payload(i) == inv[i].outcome[1].body[1]

GotPayload(i) ==
    /\ Answered(i)
    /\ ~Failed(i)
    /\ inv[i].outcome[1].body # <<>>

NoCallId(arguments) == arguments = <<>> \/ "call_id" \notin DOMAIN arguments[1]

----------------------------------------------------------------------------
(* C1: every invocation that has returned, whatever its name, arguments    *)
(* and remote outcome, returned exactly one text block whose JSON is the   *)
(* handler's result object or {"error": message}; nothing escaped the      *)
(* dispatch layer.                                                         *)
C1_UniformEnvelope ==
    \A i \in Slots : Done(i) =>
        /\ OneTextBlock(i)
        /\ \/ IsErrorObject(Obj(i))
           \/ /\ GotPayload(i)
              /\ inv[i].handler \in ToolNames
              /\ DOMAIN Obj(i) = ResultKeys(inv[i].handler)
        /\ (Failed(i) \/ inv[i].outcome = <<>>) => IsErrorObject(Obj(i))

(* A handler raised a KeyError on a call entry without id; it came back as *)
(* an error envelope.                                                      *)
C1_Witness ==
    \E i \in Slots :
        /\ Done(i) /\ GotPayload(i) /\ inv[i].handler = "search_calls"
        /\ \E k \in 1 .. Len(Get(Payload(i), "calls", <<>>)) :
              k <= CallLimit /\ "id" \notin DOMAIN Payload(i).calls[k]
        /\ Len(inv[i].out) = 1 /\ IsErrorObject(Obj(i))

(* C2: get_call_transcript or get_call_stats without arguments or without  *)
(* the key call_id returns an error envelope and issues no request.        *)
C2_MissingCallId ==
    \A i \in Slots :
        ( /\ Active(i)
          /\ inv[i].name \in {"get_call_transcript", "get_call_stats"}
          /\ NoCallId(inv[i].arguments) ) =>
        /\ Done(i)
        /\ OneTextBlock(i)
        /\ IsErrorObject(Obj(i))
        /\ inv[i].nreq = 0
        /\ inv[i].request = <<>>
        /\ inv[i].outcome = <<>>

(* get_call_stats was invoked with a dictionary that lacks call_id *)
C2_Witness ==
    \E i \in Slots :
        /\ Done(i) /\ inv[i].name = "get_call_stats"
        /\ inv[i].arguments # <<>>
        /\ DOMAIN inv[i].arguments[1] = {"keyword"}
        /\ inv[i].nreq = 0

(* C3: a name that is not exactly one of the four operations returns an    *)
(* error envelope whose message mentions the name; no handler runs and no  *)
(* request is issued.                                                      *)
C3_UnknownOperation ==
    \A i \in Slots :
        (Active(i) /\ inv[i].name \notin ToolNames) =>
        /\ Done(i)
        /\ OneTextBlock(i)
        /\ IsErrorObject(Obj(i))
        /\ Contains(Obj(i).error, inv[i].name)
        /\ inv[i].handler = "none"
        /\ inv[i].nreq = 0
        /\ inv[i].request = <<>>

(* A name that differs from an operation only by case was invoked *)
C3_Witness ==
    \E i \in Slots :
        Done(i) /\ inv[i].name = "Search_Calls" /\ inv[i].arguments # <<>>

(* C4: a non-2xx answer returns an error envelope whose message contains   *)
(* the status code and the body text, for each of the four operations;     *)
(* the projection is not applied and the invocation returns normally.      *)
C4_Non2xxIsError ==
    \A i \in Slots : Non2xx(i) =>
        /\ OneTextBlock(i)
        /\ IsErrorObject(Obj(i))
        /\ Contains(Obj(i).error, ToString(inv[i].outcome[1].status))
        /\ Contains(Obj(i).error, inv[i].outcome[1].text)
        /\ inv[i].handler \in ToolNames

(* A redirect (301) answered list_scorecards *)
C4_Witness ==
    \E i \in Slots :
        /\ Non2xx(i) /\ inv[i].handler = "list_scorecards"
        /\ inv[i].outcome[1].status = 301
        /\ Len(inv[i].out) = 1

(* C5: an invocation issues at most one request; a failed request ends the *)
(* invocation with an error envelope and no further request.               *)
C5_NoRetry ==
    \A i \in Slots :
        /\ inv[i].nreq <= 1
        /\ inv[i].pc = "awaiting" => inv[i].nreq = 1 /\ inv[i].outcome = <<>>
        /\ Failed(i) => /\ inv[i].nreq = 1
                        /\ OneTextBlock(i)
                        /\ IsErrorObject(Obj(i))

(* The single request of a get_call_transcript failed in transport *)
C5_Witness ==
    \E i \in Slots :
        /\ Failed(i) /\ inv[i].outcome[1].kind = "transport"
        /\ inv[i].handler = "get_call_transcript"
        /\ inv[i].nreq = 1

WellFormedCalls(all) == \A k \in 1 .. Len(all) : "id" \in DOMAIN all[k]

(* C6: a successful search_calls over N well-formed entries returns the    *)
(* projections of the first min(10, N) entries in order, and found is the  *)
(* length of that list.                                                    *)
C6_SearchTruncation ==
    \A i \in Slots :
        ( /\ GotPayload(i) /\ inv[i].handler = "search_calls"
          /\ WellFormedCalls(Get(Payload(i), "calls", <<>>)) ) =>
        LET all == Get(Payload(i), "calls", <<>>)
            n == IF Len(all) < 10 THEN Len(all) ELSE 10
        IN /\ OneTextBlock(i)
           /\ DOMAIN Obj(i) = {"found", "calls"}
           /\ Len(Obj(i).calls) = n
           /\ Obj(i).found = n
           /\ \A k \in 1 .. n :
                 /\ Obj(i).calls[k].id = all[k].id
                 /\ Obj(i).calls[k].title = Get(all[k], "title", "Untitled")
                 /\ Obj(i).calls[k] = project_call(all[k])

(* More than ten entries came back *)
C6_Witness ==
    \E i \in Slots :
        /\ GotPayload(i) /\ inv[i].handler = "search_calls"
        /\ Len(Get(Payload(i), "calls", <<>>)) > 10
        /\ WellFormedCalls(Payload(i).calls)
        /\ Obj(i).found = 10

(* Number of sentences the remote sent for the call: those of the first    *)
(* transcript entry, none when there is no entry.                          *)
RemoteSentences(payload) ==
    LET ts == Get(payload, "callTranscripts", <<>>)
    IN IF ts = <<>> THEN <<>> ELSE Get(ts[1], "sentences", <<>>)

SoftNotFound == [error |-> <<"No transcript found for this call">>]

(* C7 as stated: showing = min(50, total_sentences), and with zero         *)
(* sentences the result is the soft not-found shape.                       *)
C7_AsStated ==
    \A i \in Slots :
        (GotPayload(i) /\ inv[i].handler = "get_call_transcript") =>
        LET total == Len(RemoteSentences(Payload(i)))
        IN /\ total = 0 => Obj(i) = SoftNotFound
           /\ total > 0 => /\ Obj(i).total_sentences = total
                           /\ Obj(i).showing = (IF total < 50 THEN total ELSE 50)

(* C7 amended: the soft not-found shape is returned exactly when the       *)
(* remote sent no transcript entry; otherwise the result carries a         *)
(* conversation of min(50, total_sentences) entries, total_sentences is    *)
(* the number of sentences of the first entry and showing is               *)
(* min(50, total_sentences), also when that number is 0.                   *)
C7_ShowingAndSoftNotFound ==
    \A i \in Slots :
        (GotPayload(i) /\ inv[i].handler = "get_call_transcript") =>
        LET total == Len(RemoteSentences(Payload(i)))
            shown == IF total < 50 THEN total ELSE 50
        IN /\ OneTextBlock(i)
           /\ IF Get(Payload(i), "callTranscripts", <<>>) = <<>>
              THEN Obj(i) = SoftNotFound
              ELSE /\ DOMAIN Obj(i) = ResultKeys("get_call_transcript")
                   /\ Obj(i).total_sentences = total
                   /\ Obj(i).showing = shown
                   /\ Len(Obj(i).conversation) = shown

(* A transcript of more than fifty sentences came back *)
C7_Witness ==
    \E i \in Slots :
        /\ GotPayload(i) /\ inv[i].handler = "get_call_transcript"
        /\ Len(RemoteSentences(Payload(i))) > 50
        /\ Obj(i).showing = 50

Args(i) == IF inv[i].arguments = <<>> THEN EmptyDict ELSE inv[i].arguments[1]

Requested(i, handler) ==
    Active(i) /\ inv[i].handler = handler /\ inv[i].request # <<>>

AloneBegin(i) ==
    handle_call_tool_begin(inv[i].name, inv[i].arguments,
                           IF inv[i].reads = <<>> THEN 0 ELSE inv[i].reads[1],
                           IF inv[i].reads = <<>> THEN 0 ELSE inv[i].reads[2])

AloneRequest(i) ==
    LET b == AloneBegin(i)
    IN IF b.ok
       THEN <<BuildRequest("key", "secret", "https://api.gong.io/v2",
                           b.method, b.endpoint, b.kwargs)>>
       ELSE <<>>

AloneEnvelope(i) ==
    LET b == AloneBegin(i)
    IN IF ~b.ok THEN ErrorEnvelope(b.msg)
       ELSE LET r == handle_call_tool_resume(HandlerEntered(inv[i].name, inv[i].arguments),
                                             b.frame, inv[i].outcome[1])
            IN IF r.ok THEN ResultEnvelope(r.value[1]) ELSE ErrorEnvelope(r.msg)

(* C9: with invocations interleaved at their awaits, each one sends the    *)
(* request and returns the envelope it would alone, and the credentials    *)
(* and the base URL keep the values the constructor gave them.             *)
C9_Isolation ==
    /\ access_key = "key"
    /\ access_key_secret = "secret"
    /\ base_url = "https://api.gong.io/v2"
    /\ \A i \in Slots :
          /\ Active(i) => inv[i].request = AloneRequest(i)
          /\ Done(i) => inv[i].out = AloneEnvelope(i)

(* An invocation that shared its await with another one has returned a     *)
(* result while the other, issued before the response came, is still       *)
(* waiting or has returned too.                                            *)
C9_Witness ==
    \E i, j \in Slots :
        /\ i # j
        /\ GotPayload(i) /\ inv[i].overlapped
        /\ ~IsErrorObject(Obj(i))
        /\ Active(j) /\ inv[j].overlapped
        /\ inv[j].handler \in ToolNames /\ inv[j].handler # inv[i].handler

(* The instant an ISO timestamp denotes *)
Instant(stamp) == stamp.iso.date * TicksPerDay + stamp.iso.time

Window(i) ==
    IF inv[i].handler = "search_calls"
    THEN inv[i].request[1].kwargs.params
    ELSE inv[i].request[1].kwargs.json.filter

(* C10: for days_back >= 0 (defaults 7 and 30 included) and a clock that   *)
(* does not go back between the two readings, the window sent by           *)
(* search_calls and list_scorecards has fromDateTime <= toDateTime, and    *)
(* toDateTime is the second clock reading of the invocation.               *)
C10_DateWindowOrdered ==
    \A i \in Slots :
        (Requested(i, "search_calls") \/ Requested(i, "list_scorecards")) =>
        LET days == Get(Args(i), "days_back",
                        IF inv[i].handler = "search_calls" THEN 7 ELSE 30)
            w == Window(i)
        IN /\ Instant(w.toDateTime) = inv[i].reads[2]
           /\ w.toDateTime.suffix = "Z"
           /\ (days >= 0 /\ inv[i].reads[1] <= inv[i].reads[2])
                 => Instant(w.fromDateTime) <= Instant(w.toDateTime)

(* search_calls ran with its default of 7 days while the clock advanced    *)
(* between the two readings.                                               *)
C10_Witness ==
    \E i \in Slots :
        /\ Requested(i, "search_calls")
        /\ "days_back" \notin DOMAIN Args(i)
        /\ inv[i].reads[1] < inv[i].reads[2]
        /\ Instant(Window(i).fromDateTime) = inv[i].reads[1] - 7 * TicksPerDay
====
